---- MODULE Spec2Model ----
(***************************************************************************)
(* Model of the leveled Logger of src/log.go: threshold filtering          *)
(* (Level.includes), the eight severity-tagged write methods, the shared   *)
(* output path with its release and re-acquisition of the mutex, the       *)
(* header formatter (itoa, formatHeader), runtime reconfiguration and      *)
(* Close.                                                                  *)
(*                                                                         *)
(* Strings are sequences of tokens: one token per byte for digits,         *)
(* punctuation and message bytes, one token for a level name or a file     *)
(* name.  Methods with a value receiver (func (l Logger) ...) work on a    *)
(* copy of the Logger taken when the method is invoked, before its first   *)
(* statement runs; methods with a pointer receiver (func (l *Logger) ...)  *)
(* work on the Logger itself.  The copy and the Logger share the mutex     *)
(* (a pointer field) and nothing else.                                     *)
(***************************************************************************)
EXTENDS Integers, Sequences, FiniteSets, TLC

\* ------------------------------------------------------------------ bounds
MaxOps == 2           \* operations started in one behaviour
MaxClock == 1         \* ticks of the wall clock
MaxDepth == 1         \* largest argument of SetCallDepth
UserFrames == 2       \* frames of user code on a caller's stack
MaxInt == 12          \* a further integer handed to itoa in SpecFn

\* The goroutines that use the one Logger.
Threads == {1, 2}

\* ------------------------------------------------------------------ levels
DebugLvl == "DEBUG"
InfoLvl == "INFO"
WarnLvl == "WARN"
ErrorLvl == "ERROR"

\* The four named levels: the severities a log method can carry.
Severities == {DebugLvl, InfoLvl, WarnLvl, ErrorLvl}

\* Level is a string type: a threshold can be any string.  "TRACE" stands
\* for the values that are none of the four names.
Levels == Severities \cup {"TRACE"}

\* A string whose pointer and length words come from two different values.
TornLvl == "TORN"

\* len(string(level)): the length word of the string header.
LevelLen(lv) ==
    CASE lv \in {DebugLvl, ErrorLvl, "TRACE"} -> 5
      [] lv \in {InfoLvl, WarnLvl} -> 4
      [] OTHER -> 0

\* includes with a default branch that excludes: an unrecognized threshold
\* would silence the Logger.
includesFailClosed(l, other) ==
    CASE l = InfoLvl -> other # DebugLvl
      [] l = WarnLvl -> other # DebugLvl /\ other # InfoLvl
      [] l = ErrorLvl -> other # DebugLvl /\ other # InfoLvl /\ other # WarnLvl
      [] l = DebugLvl -> TRUE
      [] OTHER -> FALSE

\* func (l Level) includes(other Level) bool
includes(l, other) ==
    CASE l = InfoLvl -> other # DebugLvl
      [] l = WarnLvl -> other # DebugLvl /\ other # InfoLvl
      [] l = ErrorLvl -> other # DebugLvl /\ other # InfoLvl /\ other # WarnLvl
      [] OTHER -> TRUE

\* ------------------------------------------------------------------ itoa
Digit(d) == <<"0", "1", "2", "3", "4", "5", "6", "7", "8", "9">>[d + 1]

\* The loop of itoa: digits are produced from the least significant one, as
\* long as a digit or a column of the width is left.
RECURSIVE itoaLoop(_, _, _)
itoaLoop(u, wid, acc) ==
    IF u > 0 \/ wid > 0
    THEN itoaLoop(u \div 10, wid - 1, <<Digit(u % 10)>> \o acc)
    ELSE acc

\* itoa that takes no notice of the width.
itoaUnpadded(buf, i, wid) ==
    IF i = 0
    THEN buf \o <<"0">>
    ELSE buf \o itoaLoop(i, 0, <<>>)

\* func itoa(buf *[]byte, i int, wid int), for i >= 0
itoa(buf, i, wid) ==
    IF i = 0 /\ wid <= 1
    THEN buf \o <<"0">>
    ELSE buf \o itoaLoop(i, wid, <<>>)

\* ------------------------------------------------------------------ header
\* The instant the wall clock shows at tick n: 2024-03-05T07:08:09 plus n
\* seconds.
InstantOf(n) ==
    [year |-> 2024, month |-> 3, day |-> 5, hour |-> 7, minute |-> 8, second |-> 9 + n]

\* func (l *Logger) formatHeader(buf *[]byte, now time.Time, file string, line int, level Level)
formatHeader(buf, now, file, line, level) ==
    LET b1 == itoa(buf, now.year, 4) \o <<"-">>
        b2 == itoa(b1, now.month, 2) \o <<"-">>
        b3 == itoa(b2, now.day, 2) \o <<"T">>
        b4 == itoa(b3, now.hour, 2) \o <<":">>
        b5 == itoa(b4, now.minute, 2) \o <<":">>
        b6 == itoa(b5, now.second, 2)
        b7 == b6 \o <<" ", "[", level, "]", " ">>
        b8 == b7 \o <<file>> \o <<":">>
    IN  itoa(b8, line, -1) \o <<":", " ">>

\* ------------------------------------------------------------------ state
Nil == "nil"              \* the nil io.Writer
NilClient == 0            \* the nil *raven.Client; clients are 1, 2, ...
TornSink == "torn"        \* an interface whose type and data words disagree
TornNil == "tornnil"      \* the same, one of the two values mixed being nil
Sinks == {"F", "B"}       \* "F" is an io.WriteCloser (a file), "B" is not
IsCloser(w) == w = "F"

\* The rendered messages: fmt.Sprint / fmt.Sprintf results.
Msgs == {<<>>, <<"a">>, <<"a", "\n">>}

VARIABLES
    logger,      \* the Logger: [level, out, sentry, calldepth, buf]
    lock,        \* *l.lock: 0 when free, else the goroutine that locked it
    clock,       \* time.Now(), in ticks
    sink,        \* the sinks' side: number of Write calls, now of the latest line
    stderr,      \* number of diagnostics written to os.Stderr
    reports,     \* number of reports handed to a raven client
    releases,    \* the clients Close was called on, in order
    closes,      \* the sinks Close was called on, in order
    nextClient,  \* the client the next successful raven.NewClient returns
    nOps,        \* operations started so far
    crashed,     \* the process died of a panic
    pc,          \* where each goroutine is in its current operation
    op,          \* the operation each goroutine is in
    l,           \* the receiver of each goroutine's value-receiver method
    now,         \* output's local now
    loc,         \* output's locals file, line
    wr,          \* the Write calls of the current operation, in order
    stable,      \* no field of the Logger was stored since the operation began
    ret,         \* what the current operation returns
    wide,        \* one goroutine and every input, or every goroutine and fewer inputs
    fnIn,        \* SpecFn: the arguments of a function under test
    fnOut        \* SpecFn: its result

fvars == <<wide, fnIn, fnOut>>
vars == <<logger, lock, clock, sink, stderr, reports, releases, closes, nextClient,
          nOps, crashed, pc, op, l, now, loc, wr, stable, ret, fvars>>

NoOp == [kind |-> "none", sev |-> "", fmtd |-> FALSE, msg |-> <<>>, arg |-> "", depth |-> 0]
NoLoc == [file |-> "", line |-> 0]
NoFn == [f |-> "none"]

\* func New(level, out, sentry, sentryTags): the Logger literal of lines 108-113.
\* calldepth and buf are left at their zero values.
New(level, out, sentryClient) ==
    [level |-> level, out |-> out, sentry |-> sentryClient, calldepth |-> 0, buf |-> <<>>]

\* Logger{}: what a goroutine that is in no value-receiver method holds.
ZeroLogger == New("", Nil, NilClient)

TypeOK ==
    /\ logger.level \in Levels
    /\ logger.out \in Sinks \cup {Nil}
    /\ logger.sentry \in 0 .. MaxOps + 1
    /\ logger.calldepth \in 0 .. MaxDepth
    /\ logger.buf = <<>>
    /\ lock \in {0} \cup Threads
    /\ clock \in 0 .. MaxClock
    /\ nOps \in 0 .. MaxOps
    /\ crashed \in BOOLEAN
    /\ \A t \in Threads : Len(wr[t]) <= 1

\* The thresholds and severities in use: all of them for one goroutine, two of
\* each (of different lengths, on both sides of the table) for several.
LevelsIn == IF wide THEN Levels ELSE {DebugLvl, WarnLvl}
SevsIn == IF wide THEN Severities ELSE {InfoLvl, ErrorLvl}

\* The state after New: any threshold, any sink or none, a client or none.
Constructed ==
    /\ \E level \in LevelsIn, out \in Sinks \cup {Nil}, c \in {NilClient, 1} :
          /\ logger = New(level, out, c)
          /\ nextClient = c + 1
    /\ lock = 0
    /\ clock = 0
    /\ sink = [n |-> 0, lastNow |-> 0, maxNow |-> 0]
    /\ stderr = 0
    /\ reports = 0
    /\ releases = <<>>
    /\ closes = <<>>
    /\ nOps = 0
    /\ crashed = FALSE
    /\ pc = [t \in Threads |-> "idle"]
    /\ op = [t \in Threads |-> NoOp]
    /\ l = [t \in Threads |-> ZeroLogger]
    /\ now = [t \in Threads |-> 0]
    /\ loc = [t \in Threads |-> NoLoc]
    /\ wr = [t \in Threads |-> <<>>]
    /\ stable = [t \in Threads |-> TRUE]
    /\ ret = [t \in Threads |-> "none"]
    /\ fnOut = NoFn

\* Every goroutine uses the Logger; the log calls are Info and Error with the
\* message "a".
Init == wide = FALSE /\ Constructed /\ fnIn = NoFn

\* One goroutine uses the Logger, with every input.
InitSeq == wide = TRUE /\ Constructed /\ fnIn = NoFn

\* The goroutines that start operations, and the inputs of their log calls.
Users == IF wide THEN {1} ELSE Threads
MsgsIn == IF wide THEN Msgs ELSE {<<"a">>}
FmtdIn == IF wide THEN BOOLEAN ELSE {FALSE}

\* ------------------------------------------------------------------ helpers
\* sync.Mutex.Unlock: unlocking a mutex that is not locked is a fatal error.
\* The mutex has no owner: Unlock frees it whoever locked it.
Unlock ==
    /\ lock' = 0
    /\ crashed' = (crashed \/ lock = 0)

\* The setter that holds the mutex and has not yet stored its argument.
Poised(kind) == {u \in Threads : pc[u] = "set" /\ op[u].kind = kind}

\* A value receiver is copied field by field with no lock held.  A field read
\* while a setter stores into it yields the old value, the new one (both arise
\* from the order of the two steps) or, for the two-word fields level and out,
\* a mix of the two.
CopyLevels ==
    {logger.level} \cup
    {TornLvl : u \in {v \in Poised("SetLevel") : LevelLen(op[v].arg) # LevelLen(logger.level)}}

CopyOuts ==
    {logger.out} \cup
    {IF Nil \in {op[u].arg, logger.out} THEN TornNil ELSE TornSink :
        u \in {v \in Poised("SetOutput") : op[v].arg # logger.out}}

ReceiverCopies ==
    {[logger EXCEPT !.level = lv, !.out = w] : lv \in CopyLevels, w \in CopyOuts}

Racing == \E u \in Threads : pc[u] \in {"set", "setsentry"}

\* Goroutine t starts operation o with receiver c.
Begin(t, o, c, next) ==
    /\ ~crashed
    /\ t \in Users
    /\ pc[t] = "idle"
    /\ nOps < MaxOps
    /\ nOps' = nOps + 1
    /\ pc' = [pc EXCEPT ![t] = next]
    /\ op' = [op EXCEPT ![t] = o]
    /\ l' = [l EXCEPT ![t] = c]
    /\ stable' = [stable EXCEPT ![t] = ~Racing]
    /\ UNCHANGED <<now, loc, wr, ret>>

\* Goroutine t has returned from its operation: its locals are gone.
End(t) ==
    /\ pc' = [pc EXCEPT ![t] = "idle"]
    /\ op' = [op EXCEPT ![t] = NoOp]
    /\ l' = [l EXCEPT ![t] = ZeroLogger]
    /\ now' = [now EXCEPT ![t] = 0]
    /\ loc' = [loc EXCEPT ![t] = NoLoc]
    /\ wr' = [wr EXCEPT ![t] = <<>>]
    /\ ret' = [ret EXCEPT ![t] = "none"]

\* The line of src/log.go at which each method calls log or logf.
MethodLine(sev, fmtd) ==
    CASE sev = DebugLvl -> IF fmtd THEN 184 ELSE 198
      [] sev = InfoLvl -> IF fmtd THEN 213 ELSE 227
      [] sev = WarnLvl -> IF fmtd THEN 245 ELSE 262
      [] sev = ErrorLvl -> IF fmtd THEN 280 ELSE 297

\* The user frame j levels above the frame that called the log method.
UserFrame(j) == [file |-> "app.go", line |-> 40 + j]

\* The call stack at the call of runtime.Caller in output, innermost first:
\* output, log or logf, the log method, then the frames of user code.
Stack(o) ==
    << [file |-> "log.go", line |-> 368],
       [file |-> "log.go", line |-> IF o.fmtd THEN 308 ELSE 301],
       [file |-> "log.go", line |-> MethodLine(o.sev, o.fmtd)] >>
    \o [j \in 1 .. UserFrames |-> UserFrame(j - 1)]

\* runtime.Caller(skip) and the substitution of lines 369-372.
CallerOrSentinel(stack, skip) ==
    IF skip >= 0 /\ skip < Len(stack)
    THEN stack[skip + 1]
    ELSE [file |-> "???", line |-> 0]

\* Lines 377-379: the newline output appends after the message.
NewlineFor(s) ==
    IF Len(s) > 0 /\ s[Len(s)] # "\n" THEN <<"\n">> ELSE <<>>

\* output with lines 374 and 375 exchanged: the header is cut off again.
OutputBufLateTruncate(c, n, where, s) ==
    SubSeq(formatHeader(c.buf, InstantOf(n), where.file, where.line, c.level), 1, 0)
        \o s \o NewlineFor(s)

\* output reading the clock when it formats the header.
OutputBufClockAtWrite(c, n, where, s) ==
    formatHeader(SubSeq(c.buf, 1, 0), InstantOf(clock), where.file, where.line, c.level)
        \o s \o NewlineFor(s)

\* Lines 374-379: the scratch buffer after truncation, header and message.
\* The level handed to formatHeader is the receiver's level field.
OutputBuf(c, n, where, s) ==
    formatHeader(SubSeq(c.buf, 1, 0), InstantOf(n), where.file, where.line, c.level)
        \o s \o NewlineFor(s)

\* ------------------------------------------------------------------ log calls
\* The tests of a log method with the threshold test left out, and with the
\* sink test left out.
DroppedNoThresholdTest(c, sev) == c.out = Nil

DroppedNoSinkTest(c, sev) == ~includes(c.level, sev)

\* The two tests every log method makes before it calls log/logf (lines
\* 178-183 and their seven repetitions): no sink, or a severity the threshold
\* excludes.
Dropped(c, sev) == c.out = Nil \/ ~includes(c.level, sev)

\* Invocation of Debug, Debugf, Info, Infof, Warn, Warnf, Error or Errorf:
\* the receiver is copied.
CallLog(t) ==
    /\ \E sev \in SevsIn, fmtd \in FmtdIn, s \in MsgsIn, c \in ReceiverCopies :
          Begin(t, [NoOp EXCEPT !.kind = "log", !.sev = sev, !.fmtd = fmtd, !.msg = s],
                c, "lock")
    /\ UNCHANGED <<logger, lock, clock, sink, stderr, reports, releases, closes,
                   nextClient, crashed, fvars>>

\* l.lock.Lock(), the first statement of a value-receiver method that locks.
Lock(t) ==
    /\ ~crashed
    /\ pc[t] = "lock"
    /\ lock = 0
    /\ lock' = t
    /\ pc' = [pc EXCEPT ![t] = IF op[t].kind = "log" THEN "check" ELSE "getlevel"]
    /\ UNCHANGED <<logger, clock, sink, stderr, reports, releases, closes,
                   nextClient, nOps, crashed, op, l, now, loc, wr, stable, ret, fvars>>

\* The two tests of a log method.  Either it returns, or it calls log/logf,
\* output takes now and releases the mutex (lines 366-367).
Check(t) ==
    /\ ~crashed
    /\ pc[t] = "check"
    /\ IF Dropped(l[t], op[t].sev)
       THEN /\ pc' = [pc EXCEPT ![t] = "ret"]
            /\ UNCHANGED <<now, lock, crashed>>
       ELSE /\ now' = [now EXCEPT ![t] = clock]
            /\ Unlock
            /\ pc' = [pc EXCEPT ![t] = "caller"]
    /\ UNCHANGED <<logger, clock, sink, stderr, reports, releases, closes,
                   nextClient, nOps, op, l, loc, wr, stable, ret, fvars>>

\* Lines 368-372: runtime.Caller(calldepth), where log/logf passed
\* l.calldepth+2.  No lock is held.
Caller(t) ==
    /\ ~crashed
    /\ pc[t] = "caller"
    /\ loc' = [loc EXCEPT ![t] = CallerOrSentinel(Stack(op[t]), l[t].calldepth + 2)]
    /\ pc' = [pc EXCEPT ![t] = "relock"]
    /\ UNCHANGED <<logger, lock, clock, sink, stderr, reports, releases, closes,
                   nextClient, nOps, crashed, op, l, now, wr, stable, ret, fvars>>

\* output going on at line 374 without waiting for the mutex.
RelockNoWait(t) ==
    /\ ~crashed
    /\ pc[t] = "relock"
    /\ lock' = t
    /\ pc' = [pc EXCEPT ![t] = "write"]
    /\ UNCHANGED <<logger, clock, sink, stderr, reports, releases, closes,
                   nextClient, nOps, crashed, op, l, now, loc, wr, stable, ret, fvars>>

\* Line 373: l.lock.Lock() in output.
Relock(t) ==
    /\ ~crashed
    /\ pc[t] = "relock"
    /\ lock = 0
    /\ lock' = t
    /\ pc' = [pc EXCEPT ![t] = "write"]
    /\ UNCHANGED <<logger, clock, sink, stderr, reports, releases, closes,
                   nextClient, nOps, crashed, op, l, now, loc, wr, stable, ret, fvars>>

\* Lines 374-381: the buffer of the receiver is rebuilt and handed to
\* l.out.Write in one call, which succeeds or returns an error.  A call through
\* a torn interface value dies or returns an error; a call through the nil
\* interface dies.
Write(t) ==
    /\ ~crashed
    /\ pc[t] = "write"
    /\ LET b == OutputBuf(l[t], now[t], loc[t], op[t].msg)
       IN  /\ l' = [l EXCEPT ![t].buf = b]
           /\ \E ok \in BOOLEAN :
                IF l[t].out \in {TornSink, TornNil, Nil}
                THEN /\ ~ok
                     /\ \E dies \in {TRUE} \cup {l[t].out = Nil} :
                          /\ crashed' = dies
                          /\ ret' = [ret EXCEPT ![t] = IF dies THEN "panic" ELSE "err"]
                     /\ UNCHANGED <<sink, wr>>
                ELSE /\ sink' = [n |-> sink.n + 1, lastNow |-> now[t],
                                    maxNow |-> IF now[t] > sink.maxNow THEN now[t]
                                               ELSE sink.maxNow]
                     /\ wr' = [wr EXCEPT ![t] =
                                  Append(wr[t], [to |-> l[t].out, bytes |-> b, ok |-> ok])]
                     /\ ret' = [ret EXCEPT ![t] = IF ok THEN "nil" ELSE "err"]
                     /\ UNCHANGED crashed
    /\ pc' = [pc EXCEPT ![t] = "ret"]
    /\ UNCHANGED <<logger, lock, clock, stderr, reports, releases, closes,
                   nextClient, nOps, op, now, loc, stable, fvars>>

\* The end of a locking method with the error of output dropped unreported.
ReturnSilent(t) ==
    /\ ~crashed
    /\ pc[t] = "ret"
    /\ Unlock
    /\ End(t)
    /\ stable' = [stable EXCEPT ![t] = TRUE]
    /\ UNCHANGED <<logger, clock, sink, stderr, reports, releases, closes, nextClient,
                   nOps, fvars>>

\* The end of a locking method.  In log/logf (lines 302-304, 309-311) the error
\* of output goes to os.Stderr and is dropped; then the deferred Unlock runs.
Return(t) ==
    /\ ~crashed
    /\ pc[t] = "ret"
    /\ stderr' = IF op[t].kind = "log" /\ ret[t] = "err" THEN stderr + 1 ELSE stderr
    /\ Unlock
    /\ End(t)
    /\ stable' = [stable EXCEPT ![t] = TRUE]
    /\ UNCHANGED <<logger, clock, sink, reports, releases, closes, nextClient, nOps, fvars>>

\* ------------------------------------------------------------------ GetLevel
CallGetLevel(t) ==
    /\ \E c \in ReceiverCopies : Begin(t, [NoOp EXCEPT !.kind = "GetLevel"], c, "lock")
    /\ UNCHANGED <<logger, lock, clock, sink, stderr, reports, releases, closes,
                   nextClient, crashed, fvars>>

\* return l.level
GetLevel(t) ==
    /\ ~crashed
    /\ pc[t] = "getlevel"
    /\ ret' = [ret EXCEPT ![t] = l[t].level]
    /\ pc' = [pc EXCEPT ![t] = "ret"]
    /\ UNCHANGED <<logger, lock, clock, sink, stderr, reports, releases, closes,
                   nextClient, nOps, crashed, op, l, now, loc, wr, stable, fvars>>

\* ------------------------------------------------------------------ setters
\* SetLevel, SetOutput, SetCallDepth, SetSentry: pointer receivers.  The call
\* and its l.lock.Lock().
SetLock(t) ==
    /\ lock = 0
    /\ lock' = t
    /\ \E o \in {[NoOp EXCEPT !.kind = "SetLevel", !.arg = lv] : lv \in LevelsIn}
           \cup {[NoOp EXCEPT !.kind = "SetOutput", !.arg = w] : w \in Sinks \cup {Nil}}
           \cup {[NoOp EXCEPT !.kind = "SetCallDepth", !.depth = d] : d \in 0 .. MaxDepth}
           \cup {[NoOp EXCEPT !.kind = "SetSentry", !.arg = dsn] : dsn \in {"valid", "invalid"}} :
          Begin(t, o, l[t], IF o.kind = "SetSentry" THEN "setsentry" ELSE "set")
    /\ UNCHANGED <<logger, clock, sink, stderr, reports, releases, closes,
                   nextClient, crashed, fvars>>

\* SetLevel storing the level and putting the call depth back to 0.
SetFieldResetsDepth(t) ==
    /\ ~crashed
    /\ pc[t] = "set"
    /\ logger' = CASE op[t].kind = "SetLevel" ->
                        [logger EXCEPT !.level = op[t].arg, !.calldepth = 0]
                   [] op[t].kind = "SetOutput" -> [logger EXCEPT !.out = op[t].arg]
                   [] op[t].kind = "SetCallDepth" -> [logger EXCEPT !.calldepth = op[t].depth]
    /\ stable' = [u \in Threads |-> stable[u] /\ logger' = logger]
    /\ pc' = [pc EXCEPT ![t] = "ret"]
    /\ UNCHANGED <<lock, clock, sink, stderr, reports, releases, closes,
                   nextClient, nOps, crashed, op, l, now, loc, wr, ret, fvars>>

\* The assignment of SetLevel, SetOutput or SetCallDepth.
SetField(t) ==
    /\ ~crashed
    /\ pc[t] = "set"
    /\ logger' = CASE op[t].kind = "SetLevel" -> [logger EXCEPT !.level = op[t].arg]
                   [] op[t].kind = "SetOutput" -> [logger EXCEPT !.out = op[t].arg]
                   [] op[t].kind = "SetCallDepth" -> [logger EXCEPT !.calldepth = op[t].depth]
    /\ stable' = [u \in Threads |-> stable[u] /\ logger' = logger]
    /\ pc' = [pc EXCEPT ![t] = "ret"]
    /\ UNCHANGED <<lock, clock, sink, stderr, reports, releases, closes,
                   nextClient, nOps, crashed, op, l, now, loc, wr, ret, fvars>>

\* SetSentry storing the new client without closing the one in place.
SetSentryNoClose(t) ==
    /\ ~crashed
    /\ pc[t] = "setsentry"
    /\ IF op[t].arg = "invalid"
       THEN /\ ret' = [ret EXCEPT ![t] = "err"]
            /\ UNCHANGED <<logger, nextClient, stable>>
       ELSE /\ logger' = [logger EXCEPT !.sentry = nextClient]
            /\ nextClient' = nextClient + 1
            /\ stable' = [u \in Threads |-> FALSE]
            /\ ret' = [ret EXCEPT ![t] = "nil"]
    /\ pc' = [pc EXCEPT ![t] = "ret"]
    /\ UNCHANGED <<lock, clock, sink, stderr, reports, releases, closes, nOps, crashed,
                   op, l, now, loc, wr, fvars>>

\* SetSentry closing the client in place before it looks at the error of
\* raven.NewClient.
SetSentryCloseFirst(t) ==
    /\ ~crashed
    /\ pc[t] = "setsentry"
    /\ releases' = IF logger.sentry # NilClient
                    THEN Append(releases, logger.sentry)
                    ELSE releases
    /\ IF op[t].arg = "invalid"
       THEN /\ ret' = [ret EXCEPT ![t] = "err"]
            /\ UNCHANGED <<logger, nextClient, stable>>
       ELSE /\ logger' = [logger EXCEPT !.sentry = nextClient]
            /\ nextClient' = nextClient + 1
            /\ stable' = [u \in Threads |-> FALSE]
            /\ ret' = [ret EXCEPT ![t] = "nil"]
    /\ pc' = [pc EXCEPT ![t] = "ret"]
    /\ UNCHANGED <<lock, clock, sink, stderr, reports, closes, nOps, crashed,
                   op, l, now, loc, wr, fvars>>

\* Lines 161-169: raven.NewClient fails on an invalid DSN and SetSentry returns
\* the error; otherwise the client in place, if any, is closed and the new one
\* stored.
SetSentry(t) ==
    /\ ~crashed
    /\ pc[t] = "setsentry"
    /\ IF op[t].arg = "invalid"
       THEN /\ ret' = [ret EXCEPT ![t] = "err"]
            /\ UNCHANGED <<logger, releases, nextClient, stable>>
       ELSE /\ releases' = IF logger.sentry # NilClient
                           THEN Append(releases, logger.sentry)
                           ELSE releases
            /\ logger' = [logger EXCEPT !.sentry = nextClient]
            /\ nextClient' = nextClient + 1
            /\ stable' = [u \in Threads |-> FALSE]
            /\ ret' = [ret EXCEPT ![t] = "nil"]
    /\ pc' = [pc EXCEPT ![t] = "ret"]
    /\ UNCHANGED <<lock, clock, sink, stderr, reports, closes, nOps, crashed,
                   op, l, now, loc, wr, fvars>>

\* ------------------------------------------------------------------ Close
CallClose(t) ==
    /\ \E c \in ReceiverCopies : Begin(t, [NoOp EXCEPT !.kind = "Close"], c, "closesentry")
    /\ UNCHANGED <<logger, lock, clock, sink, stderr, reports, releases, closes,
                   nextClient, crashed, fvars>>

\* Line 120: l.sentry.Close(), with no test for nil.  (*raven.Client).Close
\* reads a field of its receiver: on the nil client it panics.
CloseSentry(t) ==
    /\ ~crashed
    /\ pc[t] = "closesentry"
    /\ releases' = Append(releases, l[t].sentry)
    /\ crashed' = (l[t].sentry = NilClient)
    /\ ret' = [ret EXCEPT ![t] = IF l[t].sentry = NilClient THEN "panic" ELSE "none"]
    /\ pc' = [pc EXCEPT ![t] = "closesink"]
    /\ UNCHANGED <<logger, lock, clock, sink, stderr, reports, closes,
                   nextClient, nOps, op, l, now, loc, wr, stable, fvars>>

\* Lines 121-123: the sink is closed when it is an io.Closer; Close returns.
CloseSink(t) ==
    /\ ~crashed
    /\ pc[t] = "closesink"
    /\ IF l[t].out \in {TornSink, TornNil}
       THEN /\ crashed' = TRUE
            /\ ret' = [ret EXCEPT ![t] = "panic"]
            /\ UNCHANGED <<closes, pc, op, l, now, loc, wr>>
       ELSE /\ closes' = IF IsCloser(l[t].out) THEN Append(closes, l[t].out) ELSE closes
            /\ End(t)
            /\ UNCHANGED crashed
    /\ UNCHANGED <<logger, lock, clock, sink, stderr, reports, releases,
                   nextClient, nOps, stable, fvars>>

\* ------------------------------------------------------------------ clock
\* Time passes.  The clock is read only by output (line 366), so only the
\* ticks that precede a reading are taken.
Tick ==
    /\ ~crashed
    /\ clock < MaxClock
    /\ \E t \in Threads : pc[t] = "check"
    /\ clock' = clock + 1
    /\ UNCHANGED <<logger, lock, sink, stderr, reports, releases, closes,
                   nextClient, nOps, crashed, pc, op, l, now, loc, wr, stable, ret, fvars>>

Next ==
    \/ \E t \in Threads : CallLog(t)
    \/ \E t \in Threads : Lock(t)
    \/ \E t \in Threads : Check(t)
    \/ \E t \in Threads : Caller(t)
    \/ \E t \in Threads : Relock(t)
    \/ \E t \in Threads : Write(t)
    \/ \E t \in Threads : Return(t)
    \/ \E t \in Threads : CallGetLevel(t)
    \/ \E t \in Threads : GetLevel(t)
    \/ \E t \in Threads : SetLock(t)
    \/ \E t \in Threads : SetField(t)
    \/ \E t \in Threads : SetSentry(t)
    \/ \E t \in Threads : CallClose(t)
    \/ \E t \in Threads : CloseSentry(t)
    \/ \E t \in Threads : CloseSink(t)
    \/ Tick

Spec == Init /\ [][Next]_vars

SpecSeq == InitSeq /\ [][Next]_vars

\* Goroutines that call the log methods, GetLevel and the four setters, and
\* never Close.
NextLive ==
    \/ \E t \in Threads : CallLog(t)
    \/ \E t \in Threads : Lock(t)
    \/ \E t \in Threads : Check(t)
    \/ \E t \in Threads : Caller(t)
    \/ \E t \in Threads : Relock(t)
    \/ \E t \in Threads : Write(t)
    \/ \E t \in Threads : Return(t)
    \/ \E t \in Threads : CallGetLevel(t)
    \/ \E t \in Threads : GetLevel(t)
    \/ \E t \in Threads : SetLock(t)
    \/ \E t \in Threads : SetField(t)
    \/ \E t \in Threads : SetSentry(t)
    \/ Tick

\* The Go scheduler runs every runnable goroutine again, and sync.Mutex hands
\* the mutex to a goroutine that has waited (starvation mode): a step that
\* stays possible is taken, and a Lock that is possible again and again is
\* taken.  When a call begins is up to the program.
SpecLive ==
    /\ Init
    /\ [][NextLive]_vars
    /\ \A t \in Threads :
          /\ SF_vars(Lock(t))
          /\ SF_vars(Relock(t))
          /\ WF_vars(Check(t))
          /\ WF_vars(Caller(t))
          /\ WF_vars(Write(t))
          /\ WF_vars(Return(t))
          /\ WF_vars(GetLevel(t))
          /\ WF_vars(SetField(t))
          /\ WF_vars(SetSentry(t))

\* ------------------------------------------------------------------ SpecFn
\* The pure functions on their own: Init draws the arguments, one action
\* applies each function.
FnLevels == Levels \cup {"", TornLvl}
FnInstants ==
    { [year |-> 2024, month |-> 3, day |-> 5, hour |-> 7, minute |-> 8, second |-> 9],
      [year |-> 0, month |-> 1, day |-> 1, hour |-> 0, minute |-> 0, second |-> 0],
      [year |-> 7, month |-> 12, day |-> 31, hour |-> 23, minute |-> 0, second |-> 9],
      [year |-> 99, month |-> 9, day |-> 10, hour |-> 10, minute |-> 9, second |-> 59],
      [year |-> 100, month |-> 10, day |-> 9, hour |-> 9, minute |-> 10, second |-> 0],
      [year |-> 999, month |-> 2, day |-> 29, hour |-> 12, minute |-> 30, second |-> 30],
      [year |-> 1000, month |-> 11, day |-> 30, hour |-> 1, minute |-> 1, second |-> 1],
      [year |-> 9999, month |-> 12, day |-> 31, hour |-> 23, minute |-> 59, second |-> 59] }
FnWidths == {-1, 1, 2, 4}
FnFiles == {"pkg/mod.go", "???"}

InitFn ==
    /\ wide = TRUE
    /\ Constructed
    /\ logger = New(DebugLvl, Nil, NilClient)
    /\ fnIn \in [f : {"args"}, thr : FnLevels, sev : Severities, i : {0, 7, 42, 368, 1000, MaxInt},
                 wid : FnWidths, at : FnInstants, file : FnFiles]

FnUnchanged ==
    UNCHANGED <<logger, lock, clock, sink, stderr, reports, releases, closes, nextClient,
                nOps, crashed, pc, op, l, now, loc, wr, stable, ret, wide, fnIn>>

FnIncludes ==
    /\ fnIn.f = "args"
    /\ fnOut' = [f |-> "includes", val |-> includes(fnIn.thr, fnIn.sev)]
    /\ FnUnchanged

FnItoa ==
    /\ fnIn.f = "args"
    /\ fnOut' = [f |-> "itoa", val |-> itoa(<<>>, fnIn.i, fnIn.wid)]
    /\ FnUnchanged

FnFormatHeader ==
    /\ fnIn.f = "args"
    /\ fnOut' = [f |-> "formatHeader",
                 val |-> formatHeader(<<>>, fnIn.at, fnIn.file, fnIn.i, fnIn.sev)]
    /\ FnUnchanged

NextFn == FnIncludes \/ FnItoa \/ FnFormatHeader

SpecFn == InitFn /\ [][NextFn]_vars

\* ------------------------------------------------------------------ claims
\* A log call that has made its Write and not yet returned.
Wrote(t) == pc[t] = "ret" /\ op[t].kind = "log" /\ wr[t] # <<>>

\* The line handed to the sink by the current log call of t.
LineOf(t) == wr[t][1].bytes

\* The token between the brackets of a header.
TagOf(b) == b[1 + CHOOSE i \in 1 .. Len(b) : b[i] = "[" /\ \A j \in 1 .. i - 1 : b[j] # "["]

IsPrefix(h, b) == Len(h) <= Len(b) /\ SubSeq(b, 1, Len(h)) = h

\* The exclusion table of the specification, section 4.1.
AdmitsTable(thr, sev) ==
    CASE thr = InfoLvl -> sev # DebugLvl
      [] thr = WarnLvl -> sev \notin {DebugLvl, InfoLvl}
      [] thr = ErrorLvl -> sev = ErrorLvl
      [] OTHER -> TRUE

\* C1: the bracketed tag in the header of every written line is the name of
\* the severity of the call that wrote it, whatever the threshold.
C1_TagIsSeverity ==
    \A t \in Threads : Wrote(t) => TagOf(LineOf(t)) = op[t].sev

\* C2: with a collaborator configured, a warn or error call that passes the
\* sink and threshold checks forwards exactly one report; a debug or info call
\* forwards none.  Stated for the first operation of a behaviour, so that the
\* reports counted are that call's.
C2_ForwardsOncePerCall ==
    \A t \in Threads :
        (nOps = 1 /\ Wrote(t)) =>
            reports = IF op[t].sev \in {WarnLvl, ErrorLvl} /\ l[t].sentry # NilClient
                      THEN 1 ELSE 0

\* C3: includes(threshold, severity) is the exclusion table: Info admits all
\* but Debug, Warn all but Debug and Info, Error only Error, Debug and every
\* unrecognized threshold everything.
C3_IncludesIsTable ==
    fnOut.f = "includes" => fnOut.val = AdmitsTable(fnIn.thr, fnIn.sev)

C3_Witness ==
    /\ fnOut.f = "includes"
    /\ fnIn.thr = "TRACE"
    /\ fnIn.sev = DebugLvl
    /\ fnOut.val = TRUE

\* C4: with a sink set, a log call of severity s makes exactly one Write, of
\* one line, to that sink when the threshold admits s, and none when it does
\* not.
C4_OneLineIffAdmitted ==
    \A t \in Threads :
        (pc[t] = "ret" /\ op[t].kind = "log" /\ stable[t] /\ logger.out # Nil) =>
            IF AdmitsTable(logger.level, op[t].sev)
            THEN /\ Len(wr[t]) = 1
                 /\ wr[t][1].to = logger.out
                 /\ Len(LineOf(t)) > Len(op[t].msg)
                 /\ sink.n >= 1
            ELSE wr[t] = <<>>

C4_Witness ==
    \E t \in Threads :
        /\ Wrote(t)
        /\ logger.level = WarnLvl
        /\ op[t].sev = ErrorLvl
        /\ logger.out = "B"
        /\ wr[t][1].to = "B"

\* C5: every Write a sink receives is one call's complete line, made of that
\* call's own timestamp, caller location and message, whatever other calls do
\* between its release of the mutex and its re-acquisition.  (Which newline
\* ends the line is the matter of C8; which level tags it, of C1.)
C5_WriteIsOneCallsLine ==
    \A t \in Threads :
        Wrote(t) =>
            /\ Len(wr[t]) = 1
            /\ LineOf(t) =
                  formatHeader(<<>>, InstantOf(now[t]), loc[t].file, loc[t].line, l[t].level)
                      \o op[t].msg \o NewlineFor(op[t].msg)
            /\ l[t].buf = LineOf(t)
            /\ logger.buf = <<>>

\* Another call went through the whole output path while this one had the
\* mutex released.
C5_Witness ==
    \E t, u \in Threads :
        /\ t # u
        /\ Wrote(t)
        /\ pc[u] = "relock"
        /\ now[u] <= now[t]
        /\ sink.n = 1

\* C6: Close on a Logger that never had a collaborator does not panic, calls
\* Close on no absent collaborator, and goes on to the sink.
C6_CloseWithoutCollectorIsSafe ==
    \A t \in Threads :
        (op[t].kind = "Close" /\ l[t].sentry = NilClient /\ pc[t] # "closesentry") =>
            /\ ~crashed
            /\ ret[t] # "panic"
            /\ \A i \in 1 .. Len(releases) : releases[i] # NilClient

\* C7: with callerDepth k the header carries the file and line of the user
\* frame k levels above the frame that called the log method (k = 0: the call
\* site itself), never a frame inside the Logger.
C7_HeaderNamesCallSite ==
    \A t \in Threads :
        (Wrote(t) /\ l[t].calldepth < UserFrames) =>
            /\ loc[t] = UserFrame(l[t].calldepth)
            /\ IsPrefix(formatHeader(<<>>, InstantOf(now[t]), UserFrame(l[t].calldepth).file,
                                     UserFrame(l[t].calldepth).line, TagOf(LineOf(t))),
                        LineOf(t))

\* C8: every written line ends with exactly one newline: one is appended to a
\* message that does not end in a newline, the empty message included, and
\* none to a message that does.
C8_OneTrailingNewline ==
    \A t \in Threads :
        Wrote(t) =>
            LET s == op[t].msg
                b == LineOf(t)
                appended == Len(b) - Len(s)
                            - Len(formatHeader(<<>>, InstantOf(now[t]), loc[t].file,
                                               loc[t].line, l[t].level))
            IN  /\ b[Len(b)] = "\n"
                /\ appended = IF Len(s) > 0 /\ s[Len(s)] = "\n" THEN 0 ELSE 1

\* C9: on a Logger whose sink is unset, every step of a log call changes
\* nothing but the call's own position and the mutex: no Write, no report, no
\* diagnostic, no panic, no change of the Logger; the call returns straight
\* from its test and its return frees the mutex.
C9_NoSinkIsNoOp ==
    [][\A t \in Threads :
          (op[t].kind = "log" /\ logger.out = Nil /\ stable[t] /\ pc'[t] # pc[t]) =>
              /\ UNCHANGED <<logger, sink, reports, stderr, releases, closes, crashed>>
              /\ wr[t] = <<>> /\ wr'[t] = <<>>
              /\ ~crashed
              /\ pc[t] = "lock" => (pc'[t] = "check" /\ lock' = t)
              /\ pc[t] = "check" => (pc'[t] = "ret" /\ lock' = t)
              /\ pc[t] = "ret" => (pc'[t] = "idle" /\ lock' = 0)
              /\ pc[t] \in {"lock", "check", "ret"}]_vars

C9_Witness ==
    \E t \in Threads :
        /\ pc[t] = "ret"
        /\ op[t].kind = "log"
        /\ op[t].sev = ErrorLvl
        /\ logger.out = Nil
        /\ logger.level = DebugLvl
        /\ stable[t]
        /\ lock = t

\* C10: SetSentry with a DSN raven.NewClient rejects returns the error and
\* leaves the Logger as it was: the client in place stays and is not closed,
\* level, out and calldepth are untouched.
C10_FailedSetSentryKeepsState ==
    [][\A t \in Threads :
          (op[t].kind = "SetSentry" /\ op[t].arg = "invalid" /\ pc'[t] # pc[t]) =>
              /\ logger' = logger
              /\ releases' = releases
              /\ nextClient' = nextClient
              /\ pc[t] = "setsentry" => (pc'[t] = "ret" /\ ret'[t] = "err")
              /\ pc[t] = "ret" => ret[t] = "err"]_vars

C10_Witness ==
    \E t \in Threads :
        /\ pc[t] = "ret"
        /\ op[t].kind = "SetSentry"
        /\ op[t].arg = "invalid"
        /\ ret[t] = "err"
        /\ logger.sentry = 1
        /\ releases = <<>>

\* The clients raven.NewClient has returned so far, and how often Close was
\* called on one of them.
Installed == 1 .. nextClient - 1
TimesReleased(c) == Cardinality({i \in 1 .. Len(releases) : releases[i] = c})

\* Every client but the one in place was closed once, the one in place not yet.
ReplacedReleasedOnce ==
    \A c \in Installed : TimesReleased(c) = IF c = logger.sentry THEN 0 ELSE 1

AllReleasedOnce == \A c \in Installed : TimesReleased(c) = 1

\* C11: in a sequence of successful SetSentry calls followed by one Close, with
\* no two of them overlapping, every client ever installed is closed exactly
\* once.  By induction over the sequence: the state after New has every
\* replaced client closed once and the one in place open; every step other than
\* Close keeps that, a successful SetSentry by closing the client it replaces
\* (the value of l.sentry before its assignment) and storing one never closed;
\* the Close of l.sentry then leaves every client closed once, and closing the
\* sink afterwards changes none of it.
C11_EachClientReleasedOnce ==
    /\ ReplacedReleasedOnce
    /\ [][\A t \in Threads :
             /\ (ReplacedReleasedOnce /\ pc[t] = "setsentry" /\ pc'[t] = "ret"
                   /\ op[t].arg = "valid") =>
                    /\ ReplacedReleasedOnce'
                    /\ logger'.sentry \in Installed' \ Installed
                    /\ releases' = IF logger.sentry = NilClient THEN releases
                                   ELSE Append(releases, logger.sentry)
             /\ (ReplacedReleasedOnce /\ pc[t] = "closesentry" /\ pc'[t] = "closesink") =>
                    /\ AllReleasedOnce'
                    /\ logger.sentry # NilClient => releases' = Append(releases, logger.sentry)
             /\ (AllReleasedOnce /\ pc[t] = "closesink" /\ pc'[t] = "idle") =>
                    AllReleasedOnce'
             /\ (ReplacedReleasedOnce /\ pc[t] # "closesentry" /\ pc'[t] # pc[t]) =>
                    ReplacedReleasedOnce']_vars

\* New with a client, one successful SetSentry, then Close, which also closed
\* the sink.
C11_Witness ==
    /\ nextClient = 3
    /\ releases = <<1, 2>>
    /\ closes = <<"F">>
    /\ \A t \in Threads : pc[t] = "idle"

\* C12: when Write returns an error the log call still returns, with nothing
\* returned or raised: its last step writes exactly one diagnostic to
\* os.Stderr, frees the mutex and leaves the Logger as it was, so that the next
\* call finds it usable; a call whose Write succeeded writes no diagnostic.
C12_WriteErrorIsReportedNotRaised ==
    [][\A t \in Threads :
          (pc[t] = "ret" /\ op[t].kind = "log" /\ wr[t] # <<>> /\ pc'[t] # pc[t]) =>
              /\ stderr' = IF wr[t][1].ok THEN stderr ELSE stderr + 1
              /\ ret[t] = IF wr[t][1].ok THEN "nil" ELSE "err"
              /\ pc'[t] = "idle"
              /\ ret'[t] = "none"
              /\ lock = t /\ lock' = 0
              /\ ~crashed'
              /\ UNCHANGED <<logger, sink>>]_vars

\* A call writes its line after an earlier call's Write had failed.
C12_Witness ==
    \E t \in Threads :
        /\ stderr = 1
        /\ sink.n = 2
        /\ Wrote(t)
        /\ wr[t][1].ok
        /\ ~crashed

\* The decimal digits of n >= 0, and the same padded with zeros to width w.
RECURSIVE Dec(_)
Dec(n) == IF n < 10 THEN <<Digit(n)>> ELSE Dec(n \div 10) \o <<Digit(n % 10)>>
ZeroPadded(n, w) == [k \in 1 .. w - Len(Dec(n)) |-> "0"] \o Dec(n)

\* C13: the header is YYYY-MM-DDTHH:MM:SS, a space, [LEVEL], a space, the
\* file, a colon, the line and ": ", with the year padded with zeros to width
\* 4, month, day, hour, minute and second to width 2, and the line in plain
\* decimal (0 as "0").
C13_HeaderFormat ==
    fnOut.f = "formatHeader" =>
        fnOut.val =
            ZeroPadded(fnIn.at.year, 4) \o <<"-">> \o ZeroPadded(fnIn.at.month, 2) \o <<"-">>
            \o ZeroPadded(fnIn.at.day, 2) \o <<"T">> \o ZeroPadded(fnIn.at.hour, 2) \o <<":">>
            \o ZeroPadded(fnIn.at.minute, 2) \o <<":">> \o ZeroPadded(fnIn.at.second, 2)
            \o <<" ", "[", fnIn.sev, "]", " ", fnIn.file, ":">> \o Dec(fnIn.i) \o <<":", " ">>

\* 2024-03-05T07:08:09 [INFO] pkg/mod.go:42: 
C13_Witness ==
    /\ fnOut.f = "formatHeader"
    /\ fnIn.sev = InfoLvl
    /\ fnOut.val = << "2", "0", "2", "4", "-", "0", "3", "-", "0", "5", "T",
                      "0", "7", ":", "0", "8", ":", "0", "9", " ", "[", "INFO", "]", " ",
                      "pkg/mod.go", ":", "4", "2", ":", " " >>

\* C14: what an operation works with is the value the fields have while it
\* holds the mutex: a log call at its two tests and GetLevel at its return
\* hold the mutex and see the threshold, sink and depth of the Logger, and
\* Close holds the mutex and releases the client of the Logger.
C14_FieldsReadUnderMutex ==
    \A t \in Threads :
        /\ pc[t] \in {"check", "getlevel"} =>
               /\ lock = t
               /\ l[t].level = logger.level
               /\ l[t].out = logger.out
               /\ l[t].calldepth = logger.calldepth
        /\ pc[t] = "closesentry" =>
               /\ lock = t
               /\ l[t].sentry = logger.sentry

\* The positions at which the code of an operation runs between a Lock and
\* the Unlock that follows it.
HoldingPcs == {"check", "getlevel", "write", "ret", "set", "setsentry"}

\* C15: a goroutine holds the mutex exactly at the positions between a Lock
\* and the next Unlock, so at most one holds it; an admitted log call gives it
\* up after its two tests, is without it during caller resolution, takes it
\* again before the buffer is rebuilt and gives it up at its return; the mutex
\* changes hands only by a step of the goroutine that takes or gives it, and
\* every Unlock is made by the holder.
C15_LockDiscipline ==
    /\ [](\A t \in Threads : (lock = t) <=> (pc[t] \in HoldingPcs))
    /\ [][/\ \A t \in Threads :
               /\ (pc[t] = "check" /\ pc'[t] = "caller") => (lock = t /\ lock' = 0)
               /\ (pc[t] = "caller") => (lock # t /\ lock' # t)
               /\ (pc[t] = "relock" /\ pc'[t] = "write") => (lock = 0 /\ lock' = t)
               /\ (pc[t] = "write") => (lock = t /\ lock' = t /\ pc'[t] \in {"write", "ret"})
               /\ (pc[t] = "ret" /\ pc'[t] = "idle") => (lock = t /\ lock' = 0)
          /\ lock' # lock =>
               \E t \in Threads : pc'[t] # pc[t] /\ (lock = t \/ lock' = t)
                                  /\ (lock = 0 \/ lock' = 0)]_vars

\* One log call is resolving its caller while another, which took the mutex
\* in the meantime, is about to write.
C15_Witness ==
    \E t, u \in Threads :
        /\ pc[t] = "caller" /\ pc[u] = "write" /\ lock = u
        /\ op[t].kind = "log" /\ op[u].kind = "log"

\* C16: every call of a log method or of a setter that has begun returns, and
\* the mutex is free whenever no call is in progress.
C16_EveryCallReturns ==
    /\ \A t \in Threads : (pc[t] # "idle") ~> (pc[t] = "idle")
    /\ []((\A t \in Threads : pc[t] = "idle") => lock = 0)

\* YYYY-MM-DDTHH:MM:SS of the instant n seconds after the start.
Stamp(n) ==
    LET at == InstantOf(n)
    IN  ZeroPadded(at.year, 4) \o <<"-">> \o ZeroPadded(at.month, 2) \o <<"-">>
        \o ZeroPadded(at.day, 2) \o <<"T">> \o ZeroPadded(at.hour, 2) \o <<":">>
        \o ZeroPadded(at.minute, 2) \o <<":">> \o ZeroPadded(at.second, 2)

\* C17: output reads the clock once, in the step in which it gives up the
\* mutex; nothing that happens until the call returns changes what it read, and
\* the line it writes bears that reading.  (The witness is a line that arrives
\* after a line with a later timestamp.)
C17_TimestampIsCallTime ==
    /\ [](\A t \in Threads :
             Wrote(t) => /\ IsPrefix(Stamp(now[t]), LineOf(t))
                         /\ sink.lastNow = now[t])
    /\ [][\A t \in Threads :
             /\ (pc[t] = "check" /\ pc'[t] = "caller") => (now'[t] = clock /\ lock = t)
             /\ (pc[t] \in {"caller", "relock", "write"}) => now'[t] = now[t]
             /\ (pc[t] = "ret" /\ pc'[t] = "ret") => now'[t] = now[t]]_vars

C17_Witness ==
    \E t \in Threads :
        /\ Wrote(t)
        /\ sink.n = 2
        /\ now[t] < sink.maxNow
        /\ now[t] < clock
        /\ IsPrefix(Stamp(now[t]), LineOf(t))

\* C18: a log call that finds a sink (or two sinks, one being replaced by the
\* other) and whose severity passes makes one Write, of its whole line, to a
\* sink; when no setter has stored or been about to store since the call
\* began, that sink is the sink of the Logger.
C18_SinkReplacement ==
    \A t \in Threads :
        (/\ pc[t] = "ret" /\ op[t].kind = "log"
         /\ l[t].out \notin {Nil, TornNil}
         /\ includes(l[t].level, op[t].sev)) =>
            /\ Len(wr[t]) = 1
            /\ wr[t][1].to \in Sinks
            /\ wr[t][1].bytes = l[t].buf
            /\ sink.n >= 1
            /\ stable[t] => wr[t][1].to = logger.out

\* C19: the Close call that is the first to release (no client was released
\* twice or left behind before it) releases a client no one has released yet,
\* and when no other call is in progress every client ever installed has then
\* been released exactly once.
C19_CloseReleasesTheInstalledClient ==
    [][\A t \in Threads :
          (/\ ReplacedReleasedOnce
           /\ l[t].sentry # NilClient
           /\ pc[t] = "closesentry" /\ pc'[t] = "closesink") =>
              /\ \A c \in Installed : TimesReleased(c)' <= 1
              /\ (\A u \in Threads \ {t} : pc[u] = "idle") => AllReleasedOnce']_vars

\* C20: SetLevel, SetOutput and SetCallDepth store their argument in their own
\* field and leave the other fields, the client, the clients released and the
\* sink as they are; no step of a log call or of GetLevel changes a field;
\* the level changes only by the store of a SetLevel, to its argument, so that
\* the level GetLevel returns when no setter was at work since it was called,
\* the level of the Logger, is the argument of the last SetLevel that has
\* stored (the level given to New when there is none).
C20_FrameAndRoundTrip ==
    /\ [](\A t \in Threads :
             (pc[t] = "ret" /\ op[t].kind = "GetLevel" /\ stable[t]) =>
                 ret[t] = logger.level)
    /\ [][/\ \A t \in Threads :
               /\ (pc[t] = "set" /\ pc'[t] # pc[t]) =>
                      /\ logger'.level = IF op[t].kind = "SetLevel" THEN op[t].arg
                                         ELSE logger.level
                      /\ logger'.out = IF op[t].kind = "SetOutput" THEN op[t].arg
                                       ELSE logger.out
                      /\ logger'.calldepth = IF op[t].kind = "SetCallDepth" THEN op[t].depth
                                             ELSE logger.calldepth
                      /\ logger'.sentry = logger.sentry
                      /\ logger'.buf = logger.buf
                      /\ UNCHANGED <<sink, releases, closes, reports, nextClient>>
               /\ (pc'[t] # pc[t] /\ (op[t].kind = "log" \/ op'[t].kind = "log")) =>
                      logger' = logger
               /\ (pc'[t] # pc[t] /\ (op[t].kind = "GetLevel" \/ op'[t].kind = "GetLevel")) =>
                      UNCHANGED <<logger, sink, releases, closes, reports, nextClient, stderr>>
          /\ logger'.level # logger.level =>
                 \E t \in Threads : /\ op[t].kind = "SetLevel" /\ pc[t] = "set"
                                    /\ pc'[t] = "ret" /\ logger'.level = op[t].arg]_vars

\* GetLevel, called second, is about to return WARN.
C20_Witness ==
    \E t \in Threads :
        /\ pc[t] = "ret" /\ op[t].kind = "GetLevel"
        /\ nOps = 2 /\ stable[t]
        /\ ret[t] = WarnLvl /\ logger.level = WarnLvl

====
